---- MODULE Spec2Model ----
(***************************************************************************)
(* A model of the resume builder: the text-enhancement client              *)
(* (gemini_optimizer.py), the flow construction of the PDF layout engine   *)
(* and the Streamlit builder application (resume_builder.py).              *)
(*                                                                         *)
(* Text is a sequence of atoms.  An atom is a whitespace character (" " or *)
(* "\n") or a chunk of non-whitespace characters, so that str.strip,       *)
(* str.split and Python truthiness are computed as Python computes them.   *)
(***************************************************************************)
EXTENDS Integers, Sequences, FiniteSets, TLC

VARIABLES
    ss,         \* st.session_state: the keys present and their values
    widgets,    \* browser-side values of the widgets with a constant default
    out,        \* what the last script run displayed
    identity,   \* how the Streamlit build tells one keyed widget from another
    opt,        \* a ResumeOptimizer instance and the result of its last call
    flow_in,    \* the record handed to _make_flow
    flow_out,   \* the flowables _make_flow returned
    layout,     \* a page handed to the drawing loop and what the loop drew
    util        \* a call of one of the text utilities and its result

appVars == <<ss, widgets, out, identity>>
optVars == <<opt>>
flowVars == <<flow_in, flow_out>>
auxVars == <<layout, util>>
vars == <<ss, widgets, out, identity, opt, flow_in, flow_out, layout, util>>

------------------------------------------------------------------------------
(* Python strings                                                          *)

IsSpace(c) == c \in {" ", "\n"}

Min(S) == CHOOSE m \in S : \A n \in S : m <= n
Max(S) == CHOOSE m \in S : \A n \in S : m >= n

\* str.strip(): without the leading and the trailing whitespace
Strip(t) ==
    LET solid == {i \in 1..Len(t) : ~IsSpace(t[i])}
    IN  IF solid = {} THEN <<>> ELSE SubSeq(t, Min(solid), Max(solid))

\* bool(s) of a string
Truthy(t) == Len(t) > 0

\* the empty string
NoText == <<>>

\* an optional argument: None is <<>>, the string t is <<t>>
None == <<>>
Some(t) == <<t>>

\* bool(x) of a value that is None or a string
TruthyOpt(x) == x # None /\ Truthy(x[1])

------------------------------------------------------------------------------
(* gemini_optimizer.py                                                     *)

\* how many calls of one instance the model follows
MaxCalls == 2

\* the credentials tried: absent, empty, whitespace only, a key
Credentials == {None, Some(<<>>), Some(<<" ">>), Some(<<" ", " ">>),
                Some(<<"key">>), Some(<<" ", "key">>)}

\* the inputs of enhance_resume_content
RawTexts == {<<>>, <<" ">>, <<"\n">>, <<" ", "\n", " ">>,
             <<"resume">>, <<" ", "resume", "\n">>, <<"# Skills", "\n", "Python">>}

\* what generate_content does: it returns a response whose text can be read,
\* or the call or the reading of response.text raises
ResponseTexts == {<<"rewritten">>, <<" ", "rewritten", "\n">>, <<>>, <<" ">>}
Failures == {"timeout", "auth", "quota", "malformed"}
Outcomes == {[kind |-> "text", text |-> t] : t \in ResponseTexts}
            \cup {[kind |-> f, text |-> <<>>] : f \in Failures}

\* ResumeOptimizer.__init__
ResumeOptimizerInit(api_key) ==
    IF ~TruthyOpt(api_key)
    THEN [raised |-> "ValueError", configured |-> None, model |-> "none"]
    ELSE [raised |-> "", configured |-> api_key, model |-> "gemini-pro"]

\* a _query_gemini that lets the failure through
query_gemini_propagates(outcome) ==
    IF outcome.kind = "text"
    THEN [ret |-> Strip(outcome.text), raised |-> FALSE, requests |-> 1]
    ELSE [ret |-> <<>>, raised |-> TRUE, requests |-> 1]

\* ResumeOptimizer._query_gemini: one generate_content call inside try/except
query_gemini(outcome) ==
    IF outcome.kind = "text"
    THEN [ret |-> Strip(outcome.text), raised |-> FALSE, requests |-> 1]
    ELSE [ret |-> <<>>, raised |-> FALSE, requests |-> 1]

\* an enhance_resume_content that tests the input without stripping it
enhance_resume_content_no_strip(raw_resume_data, outcome) ==
    IF ~Truthy(raw_resume_data)
    THEN [ret |-> <<>>, raised |-> FALSE, requests |-> 0]
    ELSE query_gemini(outcome)

\* ResumeOptimizer.enhance_resume_content
enhance_resume_content(raw_resume_data, outcome) ==
    IF ~Truthy(Strip(raw_resume_data))
    THEN [ret |-> <<>>, raised |-> FALSE, requests |-> 0]
    ELSE query_gemini(outcome)

------------------------------------------------------------------------------
(* resume_builder.py: utilities                                            *)

\* str.capitalize() of the chunks a name is typed with
Capitalize(a) ==
    CASE a = "john" -> "John"
      [] a = "DOE"  -> "Doe"
      [] a = "ada"  -> "Ada"
      [] OTHER      -> a

\* str.split(): the chunks between whitespace (chunks are typed apart)
RECURSIVE Split(_)
Split(t) ==
    IF t = <<>> THEN <<>>
    ELSE IF IsSpace(Head(t)) THEN Split(Tail(t))
    ELSE <<Head(t)>> \o Split(Tail(t))

\* sep.join(parts) of a list of strings
RECURSIVE Join(_, _)
Join(sep, parts) ==
    IF parts = <<>> THEN <<>>
    ELSE IF Len(parts) = 1 THEN parts[1]
    ELSE parts[1] \o sep \o Join(sep, Tail(parts))

\* standardize_name
standardize_name(name) ==
    IF ~Truthy(name) THEN <<>>
    ELSE LET parts == Split(Strip(name))
         IN  Join(<<" ">>, [i \in 1..Len(parts) |-> <<Capitalize(parts[i])>>])

\* clean_multiline: the empty text gives the empty string; for any other text
\* the first line is handed to re.sub, and resume_builder.py does not import
\* re, so the call ends in a NameError
clean_multiline(text) ==
    IF ~Truthy(text) THEN [raised |-> "", ret |-> NoText]
    ELSE [raised |-> "NameError", ret |-> NoText]

\* the sections of the form, in the order the page renders them
SectionOrder == <<"education_entries", "experience_entries", "project_entries",
                  "certificate_entries", "achievement_entries">>
Sections == {SectionOrder[i] : i \in 1..Len(SectionOrder)}

\* the attributes of an entry in the order its dict was built
AttrOrder ==
    [education_entries   |-> <<"degree", "institution", "start_year", "end_year",
                               "description", "location", "gpa", "courses">>,
     experience_entries  |-> <<"job_title", "company", "location", "start_year",
                               "end_year", "description", "team_size", "technologies">>,
     project_entries     |-> <<"title", "link", "start_year", "end_year",
                               "description", "outcome">>,
     certificate_entries |-> <<"name", "organization", "year", "url">>,
     achievement_entries |-> <<"title", "year", "description">>]

\* the fields of the record the generate workflow collects, in dict order
DataOrder == <<"full_name", "job_title", "address", "email", "phone",
               "linkedin_url", "github_url", "website", "job_description",
               "professional_summary", "languages", "education_entries",
               "experience_entries", "project_entries", "certificate_entries",
               "achievement_entries", "skills">>

\* key.replace('_', ' ').title() of the record's keys
HeadingOf ==
    [full_name |-> "# Full Name", job_title |-> "# Job Title",
     address |-> "# Address", email |-> "# Email", phone |-> "# Phone",
     linkedin_url |-> "# Linkedin Url", github_url |-> "# Github Url",
     website |-> "# Website", job_description |-> "# Job Description",
     professional_summary |-> "# Professional Summary",
     languages |-> "# Languages", education_entries |-> "# Education Entries",
     experience_entries |-> "# Experience Entries",
     project_entries |-> "# Project Entries",
     certificate_entries |-> "# Certificate Entries",
     achievement_entries |-> "# Achievement Entries", skills |-> "# Skills"]

\* k.title() of an entry's attribute names
LabelOf ==
    [degree |-> "Degree", institution |-> "Institution", location |-> "Location",
     start_year |-> "Start_Year", end_year |-> "End_Year", gpa |-> "Gpa",
     courses |-> "Courses", description |-> "Description",
     job_title |-> "Job_Title", company |-> "Company", team_size |-> "Team_Size",
     technologies |-> "Technologies", title |-> "Title", link |-> "Link",
     outcome |-> "Outcome", name |-> "Name", organization |-> "Organization",
     year |-> "Year", url |-> "Url"]

\* lines for the empty attributes too
EntryLinesAll(sec, entry) ==
    LET order == AttrOrder[sec]
    IN  [n \in 1..Len(order) |->
            <<LabelOf[order[n]] \o ":", " ">>
                \o (IF order[n] \in DOMAIN entry THEN entry[order[n]] ELSE NoText)]
            \o << <<"\n">> >>

\* data_to_text, the lines one entry of a list adds: a line per truthy
\* attribute, then "\n"
EntryLines(sec, entry) ==
    LET order == AttrOrder[sec]
        RECURSIVE lines(_)
        lines(n) ==
            IF n > Len(order) THEN <<>>
            ELSE (IF order[n] \in DOMAIN entry /\ Truthy(entry[order[n]])
                  THEN <<(<<LabelOf[order[n]] \o ":", " ">> \o entry[order[n]])>>
                  ELSE <<>>) \o lines(n + 1)
    IN  lines(1) \o << <<"\n">> >>

RECURSIVE ListLines(_, _)
ListLines(sec, list) ==
    IF list = <<>> THEN <<>>
    ELSE EntryLines(sec, Head(list)) \o ListLines(sec, Tail(list))

\* data_to_text: a heading and the entries of every non-empty list, a heading
\* and the value of every non-empty string; the skills dict is neither
data_to_text(data) ==
    LET RECURSIVE lines(_)
        lines(n) ==
            IF n > Len(DataOrder) THEN <<>>
            ELSE LET key == DataOrder[n]
                     value == data[key]
                 IN  (IF key \in Sections
                      THEN IF value # <<>>
                           THEN << <<HeadingOf[key], "\n">> >> \o ListLines(key, value)
                           ELSE <<>>
                      ELSE IF key # "skills" /\ Truthy(value)
                           THEN << (<<HeadingOf[key], "\n">> \o value \o <<"\n">>) >>
                           ELSE <<>>) \o lines(n + 1)
    IN  Join(<<"\n">>, lines(1))

\* a validation that also asks for the GitHub URL
RequiredWithGitHub ==
    << <<"Full Name", "full_name">>, <<"Job Title", "job_title">>,
       <<"Address", "address">>, <<"Email", "email">>, <<"Phone", "phone">>,
       <<"LinkedIn URL", "linkedin_url">>, <<"GitHub URL", "github_url">>,
       <<"Professional Summary", "professional_summary">>,
       <<"Languages", "languages">> >>

\* the mandatory fields of the generate workflow, by label, in dict order
Required ==
    << <<"Full Name", "full_name">>, <<"Job Title", "job_title">>,
       <<"Address", "address">>, <<"Email", "email">>, <<"Phone", "phone">>,
       <<"LinkedIn URL", "linkedin_url">>,
       <<"Professional Summary", "professional_summary">>,
       <<"Languages", "languages">> >>

\* missing = [k for k, v in required.items() if not str(v or "").strip()]
MissingOf(required, data) ==
    LET RECURSIVE miss(_)
        miss(n) ==
            IF n > Len(required) THEN <<>>
            ELSE (IF ~Truthy(Strip(data[required[n][2]]))
                  THEN <<required[n][1]>> ELSE <<>>) \o miss(n + 1)
    IN  miss(1)

\* data['full_name'].replace(' ', '_') + "_Resume.pdf"
FileName(full_name) ==
    [i \in 1..Len(full_name) |-> IF full_name[i] = " " THEN "_" ELSE full_name[i]]
        \o <<"_Resume.pdf">>

------------------------------------------------------------------------------
(* resume_builder.py: the flow of the PDF layout engine                    *)

\* the flowables: a paragraph in a style, a horizontal rule, a spacer.
\* In the texts "(bullet)" is the bullet glyph and "(dash)" the em dash.
Paragraph(text, style) ==
    [kind |-> "Paragraph", style |-> style, text |-> text, width |-> ""]
HRLine(width) ==
    [kind |-> "HRLine", style |-> "", text |-> NoText, width |-> width]
Spacer == [kind |-> "Spacer", style |-> "", text |-> NoText, width |-> ""]

\* d.get(k): a falsy value when the key is absent
Get(d, k) == IF k \in DOMAIN d THEN d[k] ELSE NoText

\* an add_section that does not look at the elements
add_section_always(flow, title, elements) ==
    flow \o <<Paragraph(<<title>>, "Section"), HRLine("100%")>> \o elements

\* _make_flow.add_section: the title, a full-width rule and the elements,
\* or nothing when there are no elements
add_section(flow, title, elements) ==
    IF elements = <<>> THEN flow
    ELSE flow \o <<Paragraph(<<title>>, "Section"), HRLine("100%")>> \o elements

\* the section titles of the five lists
SectionTitle ==
    [education_entries |-> "Education", experience_entries |-> "EXPERIENCE",
     project_entries |-> "PROJECTS", certificate_entries |-> "Certificates",
     achievement_entries |-> "Achievements"]

\* text.split('\n')
RECURSIVE SplitLines(_)
SplitLines(t) ==
    IF \A i \in 1..Len(t) : t[i] # "\n" THEN <<t>>
    ELSE LET p == Min({i \in 1..Len(t) : t[i] = "\n"})
         IN  <<SubSeq(t, 1, p - 1)>> \o SplitLines(SubSeq(t, p + 1, Len(t)))

\* [b.strip() for b in text.split('\n') if b.strip()]
StrippedLines(t) ==
    LET NonBlank(b) == Truthy(Strip(b))
        kept == SelectSeq(SplitLines(t), NonBlank)
    IN  [n \in 1..Len(kept) |-> Strip(kept[n])]

\* a slice that keeps the whole list
SliceAll(list, n) == list

\* list[:n]
Slice(list, n) == IF Len(list) <= n THEN list ELSE SubSeq(list, 1, n)

\* the bullet limits: the defaults of _make_flow and the compact preset
max_bullets_per_exp == 5
max_bullets_per_proj == 5
limits == [exp |-> 4, proj |-> 4]

\* x.get("description_bullets") or the stripped non-blank description lines
Bullets(x) ==
    IF Get(x, "description_bullets") # <<>> THEN x["description_bullets"]
    ELSE StrippedLines(Get(x, "description"))

\* for b in bullets[:cap]: Paragraph("(bullet)&nbsp;&nbsp;" + b, Bullet)
BulletPrefix == <<"(bullet)&nbsp;&nbsp;">>
BulletBlocks(bullets, cap) ==
    [n \in 1..Len(Slice(bullets, cap)) |->
        Paragraph(BulletPrefix \o Slice(bullets, cap)[n], "Bullet")]

\* start_year, and the end year after a dash when there is one
When(e) ==
    Get(e, "start_year")
        \o (IF Truthy(Get(e, "end_year")) THEN <<" ", "(dash)", " ">> \o e["end_year"]
            ELSE <<>>)

Gap == <<" ", "&nbsp;&nbsp;", " ">>

\* the institution line of an education entry
InstLine(e) ==
    Get(e, "institution")
        \o (IF Truthy(Get(e, "location")) THEN <<" ", "(">> \o e["location"] \o <<")">>
            ELSE <<>>)
        \o (IF Truthy(Get(e, "gpa")) THEN <<" ", "|", " ", "GPA:", " ">> \o e["gpa"]
            ELSE <<>>)

\* the body of the education loop
EducationBlocks(e) ==
    IF ~(Truthy(Get(e, "degree")) /\ Truthy(Get(e, "institution"))) THEN <<>>
    ELSE <<Paragraph(<<"<b>">> \o Get(e, "degree") \o <<"</b>">> \o Gap \o When(e),
                     "Body")>>
         \o (IF Truthy(InstLine(e)) THEN <<Paragraph(InstLine(e), "Small")>> ELSE <<>>)
         \o (IF Truthy(Get(e, "courses"))
             THEN <<Paragraph(<<"Relevant", " ", "Courses:", " ">> \o e["courses"],
                              "Small")>>
             ELSE <<>>)
         \o (IF Truthy(Get(e, "description"))
             THEN <<Paragraph(e["description"], "Small")>> ELSE <<>>)

RECURSIVE edu_flow(_)
edu_flow(entries) ==
    IF entries = <<>> THEN <<>>
    ELSE EducationBlocks(Head(entries)) \o edu_flow(Tail(entries))

\* the body of the experience loop for entry i of len entries
ExperienceBlocks(x, i, len, cap) ==
    IF ~(Truthy(Get(x, "job_title")) /\ Truthy(Get(x, "company"))) THEN <<>>
    ELSE <<Paragraph(<<"<b>">> \o Get(x, "job_title") \o <<"</b>,", " ", "<i>">>
                        \o Get(x, "company") \o <<"</i>">> \o Gap \o When(x),
                     "Body")>>
         \o BulletBlocks(Bullets(x), cap)
         \o (IF i < len - 1 THEN <<Spacer>> ELSE <<>>)

RECURSIVE exp_flow(_, _, _)
exp_flow(entries, i, cap) ==
    IF i >= Len(entries) THEN <<>>
    ELSE ExperienceBlocks(entries[i + 1], i, Len(entries), cap)
            \o exp_flow(entries, i + 1, cap)

\* the heading of a project: the title, the years, the link
ProjectParts(p) ==
    <<"<b>">> \o Get(p, "title") \o <<"</b>">>
        \o (IF Truthy(Get(p, "start_year")) \/ Truthy(Get(p, "end_year"))
            THEN Gap \o <<"(">> \o Get(p, "start_year") \o <<" ", "-", " ">>
                     \o Get(p, "end_year") \o <<")">>
            ELSE <<>>)
        \o (IF Truthy(Get(p, "link"))
            THEN Gap \o <<"<a href=">> \o p["link"] \o <<">Project", " ", "Link</a>">>
            ELSE <<>>)

\* the body of the projects loop for entry i of len entries
ProjectBlocks(p, i, len, cap) ==
    IF ~Truthy(Get(p, "title")) THEN <<>>
    ELSE <<Paragraph(ProjectParts(p), "Body")>>
         \o BulletBlocks(Bullets(p), cap)
         \o (IF i < len - 1 THEN <<Spacer>> ELSE <<>>)

RECURSIVE proj_flow(_, _, _)
proj_flow(entries, i, cap) ==
    IF i >= Len(entries) THEN <<>>
    ELSE ProjectBlocks(entries[i + 1], i, Len(entries), cap)
            \o proj_flow(entries, i + 1, cap)

\* " | ".join(extras)
CertExtras(c) ==
    Join(<<" ", "|", " ">>,
         (IF Truthy(Get(c, "organization")) THEN <<c["organization"]>> ELSE <<>>)
         \o (IF Truthy(Get(c, "year")) THEN <<c["year"]>> ELSE <<>>)
         \o (IF Truthy(Get(c, "url"))
             THEN << <<"<a href=">> \o c["url"] \o <<">Credential</a>">> >>
             ELSE <<>>))

\* the body of the certificates loop
CertificateBlocks(c) ==
    IF ~Truthy(Get(c, "name")) THEN <<>>
    ELSE <<Paragraph(<<"(bullet)", " ", "<b>">> \o c["name"] \o <<"</b>">>
                        \o (IF Truthy(CertExtras(c))
                            THEN <<" ", "(dash)", " ">> \o CertExtras(c) ELSE <<>>),
                     "Body")>>

RECURSIVE cert_flow(_)
cert_flow(entries) ==
    IF entries = <<>> THEN <<>>
    ELSE CertificateBlocks(Head(entries)) \o cert_flow(Tail(entries))

\* the body of the achievements loop
AchievementBlocks(a) ==
    IF ~Truthy(Get(a, "title")) THEN <<>>
    ELSE <<Paragraph(<<"(bullet)", " ">> \o a["title"]
                        \o (IF Truthy(Get(a, "year"))
                            THEN <<" ", "(dash)", " ">> \o a["year"] ELSE <<>>)
                        \o (IF Truthy(Get(a, "description"))
                            THEN <<":", " ">> \o a["description"] ELSE <<>>),
                     "Body")>>

RECURSIVE ach_flow(_)
ach_flow(entries) ==
    IF entries = <<>> THEN <<>>
    ELSE AchievementBlocks(Head(entries)) \o ach_flow(Tail(entries))

\* the categories of the skills mapping in dict order
SkillOrder == <<"programming", "frameworks", "databases", "tools">>

\* a line for every category whose text is not blank
RECURSIVE skills_flowables(_, _)
skills_flowables(skills, n) ==
    IF n > Len(SkillOrder) THEN <<>>
    ELSE (IF Truthy(Strip(Get(skills, SkillOrder[n])))
          THEN <<Paragraph(BulletPrefix \o <<"<b>" \o SkillOrder[n] \o ":</b>", " ">>
                              \o Strip(skills[SkillOrder[n]]), "Body")>>
          ELSE <<>>) \o skills_flowables(skills, n + 1)

\* the summary and the languages: a section of one paragraph
OneParagraph(flow, title, text) ==
    IF Truthy(text) THEN add_section(flow, title, <<Paragraph(text, "Body")>>)
    ELSE flow

\* the skills section
SkillsSection(flow, skills) ==
    IF \E c \in DOMAIN skills : Truthy(skills[c])
    THEN add_section(flow, "SKILLS", skills_flowables(skills, 1))
    ELSE flow

\* _make_flow: the sections in their order
make_flow(data, cap_exp, cap_proj) ==
    OneParagraph(
        add_section(
            add_section(
                add_section(
                    add_section(
                        add_section(
                            SkillsSection(
                                OneParagraph(<<>>, "Professional Summary",
                                             Get(data, "professional_summary")),
                                Get(data, "skills")),
                            SectionTitle["education_entries"],
                            edu_flow(Get(data, "education_entries"))),
                        SectionTitle["experience_entries"],
                        exp_flow(Get(data, "experience_entries"), 0, cap_exp)),
                    SectionTitle["project_entries"],
                    proj_flow(Get(data, "project_entries"), 0, cap_proj)),
                SectionTitle["certificate_entries"],
                cert_flow(Get(data, "certificate_entries"))),
            SectionTitle["achievement_entries"],
            ach_flow(Get(data, "achievement_entries"))),
        "Languages Known", Get(data, "languages"))

------------------------------------------------------------------------------
(* resume_builder.py: build_pdf_single_page, the drawing loop              *)
(*                                                                         *)
(* Lengths are in hundredths of a point.  The loop sees of a flowable only *)
(* the height wrapOn returns for it, and of the header only the cursor     *)
(* _draw_header returns.                                                   *)

\* bottom_margin = 10 * mm
bottom_margin == 2835

\* a loop that goes on with the next flowable when one does not fit
RECURSIVE draw_skipping(_, _, _)
draw_skipping(heights, n, y_pos) ==
    IF n > Len(heights) THEN <<>>
    ELSE IF y_pos - heights[n] < bottom_margin
    THEN draw_skipping(heights, n + 1, y_pos)
    ELSE <<[block |-> n, y |-> y_pos - heights[n]]>>
            \o draw_skipping(heights, n + 1, y_pos - heights[n])

\* for f in flowables: break at the first one that does not fit, draw the
\* others at y_pos - h and move the cursor down by h
RECURSIVE draw_flowables(_, _, _)
draw_flowables(heights, n, y_pos) ==
    IF n > Len(heights) THEN <<>>
    ELSE IF y_pos - heights[n] < bottom_margin THEN <<>>
    ELSE <<[block |-> n, y |-> y_pos - heights[n]]>>
            \o draw_flowables(heights, n + 1, y_pos - heights[n])

------------------------------------------------------------------------------
(* resume_builder.py: the Streamlit pages                                  *)
(*                                                                         *)
(* Streamlit runs main() from the top on every user event.  A widget       *)
(* returns what the user typed into it; a widget whose value argument is   *)
(* the field it is assigned to returns that field unless the event is an   *)
(* edit of this widget.  A keyed widget's value is also in session_state   *)
(* under its key while the widget is on the page; what a keyed input with  *)
(* a value argument returns once it has that state depends on the          *)
(* Streamlit build (WidgetIdentities).  A button returns True              *)
(* in the run its click started.  st.rerun() stops the run and starts one  *)
(* with no event.                                                          *)

Has(s, k) == k \in DOMAIN s
Put(s, k, v) == [x \in DOMAIN s \cup {k} |-> IF x = k THEN v ELSE s[x]]
\* ss.setdefault(k, v)
SetDefault(s, k, v) == IF Has(s, k) THEN s ELSE Put(s, k, v)


\* the keys the code itself puts in session_state
UserKeys == {"page", "api_key", "theme", "model", "skills",
             "enhanced_resume_content"} \cup Sections

\* the entries init_state seeds
DefaultEntries ==
    [education_entries |->
        << [degree |-> NoText, institution |-> NoText, start_year |-> NoText,
            end_year |-> NoText, description |-> NoText, location |-> NoText,
            gpa |-> NoText, courses |-> NoText] >>,
     experience_entries |->
        << [job_title |-> <<"Freelance Web Developer & Designer">>,
            company |-> <<"edutech">>, location |-> <<"Bangalore">>,
            start_year |-> <<"2022">>, end_year |-> <<"2026">>,
            description |-> <<"Engineered and launched custom WordPress websites.",
                              "\n", "Designed compelling social media creatives.",
                              "\n", "Produced and edited short-form promotional videos.">>,
            team_size |-> <<"5">>,
            technologies |-> <<"WordPress, CSS, Adobe Creative Suite">>] >>,
     project_entries |->
        << [title |-> <<"Resumate Quantum Forge - AI Resume Builder">>,
            link |-> NoText, start_year |-> <<"2023">>, end_year |-> <<"2024">>,
            description |-> <<"Developed a full-stack AI-powered resume generator.",
                              "\n", "Implemented features for ATS-aligned bullet points.">>,
            outcome |-> <<"Demonstrated AI integration & full-stack skills.">>] >>,
     certificate_entries |->
        << [name |-> NoText, organization |-> NoText, year |-> NoText,
            url |-> NoText] >>,
     achievement_entries |->
        << [title |-> NoText, year |-> NoText, description |-> NoText] >>]

DefaultSkills ==
    [programming |-> <<"Python">>, frameworks |-> <<"Streamlit, WordPress">>,
     databases |-> NoText,
     tools |-> <<"Google Gemini API, Adobe Creative Suite, CSS">>]

\* the record an add button appends
BlankEntry ==
    [education_entries |->
        [degree |-> NoText, institution |-> NoText, start_year |-> NoText,
         end_year |-> NoText, description |-> NoText, location |-> NoText,
         gpa |-> NoText, courses |-> NoText],
     experience_entries |->
        [job_title |-> NoText, company |-> NoText, start_year |-> NoText,
         end_year |-> NoText, description |-> NoText],
     project_entries |->
        [title |-> NoText, link |-> NoText, start_year |-> NoText,
         end_year |-> NoText, description |-> NoText],
     certificate_entries |->
        [name |-> NoText, organization |-> NoText, year |-> NoText, url |-> NoText],
     achievement_entries |->
        [title |-> NoText, year |-> NoText, description |-> NoText]]

\* the text inputs of an entry: the attribute assigned and the key's prefix
EntryWidgets ==
    [education_entries |->
        << <<"degree", "edu_degree_">>, <<"institution", "edu_inst_">>,
           <<"location", "edu_loc_">>, <<"start_year", "edu_start_">>,
           <<"end_year", "edu_end_">>, <<"gpa", "edu_gpa_">>,
           <<"courses", "edu_courses_">> >>,
     experience_entries |->
        << <<"job_title", "exp_title_">>, <<"company", "exp_company_">>,
           <<"start_year", "exp_start_">>, <<"end_year", "exp_end_">>,
           <<"description", "exp_desc_">> >>,
     project_entries |->
        << <<"title", "proj_title_">>, <<"link", "proj_link_">>,
           <<"start_year", "proj_start_">>, <<"end_year", "proj_end_">>,
           <<"description", "proj_desc_">> >>,
     certificate_entries |->
        << <<"name", "cert_name_">>, <<"organization", "cert_org_">>,
           <<"year", "cert_year_">>, <<"url", "cert_url_">> >>,
     achievement_entries |->
        << <<"title", "ach_title_">>, <<"year", "ach_year_">>,
           <<"description", "ach_desc_">> >>]

\* key=f"edu_degree_{i}"
WidgetKey(prefix, i) == prefix \o ToString(i)

\* the skills inputs: the category assigned, by the input's label
SkillWidgets ==
    << <<"programming", "Programming">>, <<"frameworks", "Frameworks & Libraries">>,
       <<"databases", "Databases">>, <<"tools", "Tools / Platforms">> >>

\* the inputs of the builder page that have no key and a constant default
FormDefaults ==
    [job_description |-> NoText, full_name |-> NoText, job_title |-> NoText,
     address |-> NoText, email |-> NoText, phone |-> NoText,
     linkedin_url |-> NoText, github_url |-> NoText,
     professional_summary |-> <<"Versatile Web Developer and Designer.">>,
     languages |-> <<"English, Telugu">>]
FormWidgets == DOMAIN FormDefaults

\* the experience and project lists hold at most this many entries
MaxExperience == 3
MaxProjects == 3

\* a user event: the run it starts sees the edited text or the clicked button
Event(type, key, index, text, outcome) ==
    [type |-> type, key |-> key, index |-> index, text |-> text, outcome |-> outcome]
NoOutcome == [kind |-> "timeout", text |-> NoText]
NoEvent == Event("load", "", 0, NoText, NoOutcome)

\* what a run displays
OutNone == [error |-> "", missing |-> <<>>, pdf |-> FALSE, pdf_data |-> <<>>,
            download |-> None, exception |-> FALSE, toast |-> "", requests |-> 0]
MandatoryKey == "A Google Gemini API key is mandatory to proceed."
PleaseFill == "Please fill in the required fields:"
FormCleared == "Form fields have been cleared!"
EnhancementComplete == "AI enhancement complete!"

\* st.text_input(label, value, key=key) assigned to the field that is its value
TextInput(ev, key, value) ==
    IF ev.type = "edit" /\ ev.key = key THEN ev.text ELSE value

\* the two ways a Streamlit build tells a widget from the one of the run
\* before: by all of its arguments, so that an input whose value argument
\* changed is a new input, or by its key alone, so that an input keeps the
\* state it has under its key whatever its value argument is
WidgetIdentities == {"arguments", "key"}

\* st.text_input(label, value, key=key) of an entry's attribute
KeyedInput(s, ev, key, value) ==
    IF ev.type = "edit" /\ ev.key = key THEN ev.text
    ELSE IF identity = "key" /\ Has(s, key) THEN s[key]
    ELSE value

\* st.text_input(label) of a widget without key and with a constant default
FormInput(w, ev, name, default) ==
    IF ev.type = "edit" /\ ev.key = name THEN ev.text
    ELSE IF name \in DOMAIN w THEN w[name] ELSE default

\* a list of kept keys without the credential
KeptKeysNoCredential == {"page", "theme"}

\* the keys clear_form_data keeps
KeptKeys == {"api_key", "page", "theme"}

\* a clear_form_data that spares the lists
clear_form_data_keep_lists(s) ==
    [k \in {x \in DOMAIN s : x \in KeptKeys \cup Sections} |-> s[k]]

\* clear_form_data: delete every key of session_state but those kept
clear_form_data(s) == [k \in {x \in DOMAIN s : x \in KeptKeys} |-> s[k]]

\* an init_state that assigns the seeds whether the keys are there or not
init_state_reseeding(s) ==
    [k \in DOMAIN s \cup Sections \cup {"model", "skills"} |->
        IF k \in Sections THEN DefaultEntries[k]
        ELSE IF k = "skills" THEN DefaultSkills
        ELSE IF k = "model" THEN None
        ELSE s[k]]

\* render_builder_page.init_state
init_state(s) ==
    LET s1 == SetDefault(s, "model", None)
        s2 == SetDefault(s1, "education_entries", DefaultEntries.education_entries)
        s3 == SetDefault(s2, "experience_entries", DefaultEntries.experience_entries)
        s4 == SetDefault(s3, "project_entries", DefaultEntries.project_entries)
        s5 == SetDefault(s4, "certificate_entries", DefaultEntries.certificate_entries)
        s6 == SetDefault(s5, "achievement_entries", DefaultEntries.achievement_entries)
    IN  SetDefault(s6, "skills", DefaultSkills)

\* how many entries the model lets the lists without a cap grow to
MaxEntries == 2

\* the positions an entry can have
MaxLen == IF MaxEntries > MaxExperience THEN MaxEntries ELSE MaxExperience
Positions == 0..(MaxLen - 1)

\* every keyed text input an entry can have: where its value is assigned
EntrySlots ==
    UNION {{[sec |-> sec, attr |-> EntryWidgets[sec][m][1],
             key |-> WidgetKey(EntryWidgets[sec][m][2], i), index |-> i] :
                m \in 1..Len(EntryWidgets[sec]), i \in Positions} : sec \in Sections}
EntryKeys == {sl.key : sl \in EntrySlots}
SlotOf == [k \in EntryKeys |-> CHOOSE sl \in EntrySlots : sl.key = k]

\* the keyed text inputs on the page for the lists as they are
KeysOnPage(s) ==
    {k \in EntryKeys : SlotOf[k].index < Len(s[SlotOf[k].sec])}

\* a button that always shows
AddAlwaysAvailable(sec, list) == TRUE

\* the section's add button is on the page
AddAvailable(sec, list) ==
    CASE sec = "experience_entries" -> Len(list) < MaxExperience
      [] sec = "project_entries"    -> Len(list) < MaxProjects
      [] OTHER                      -> TRUE

\* the add buttons followed by st.rerun()
AddReruns(sec) == sec \in {"experience_entries", "project_entries"}

\* list.pop(i)
Pop(list, i) == SubSeq(list, 1, i) \o SubSeq(list, i + 2, Len(list))

\* the button of a section that the event clicked
Clicked(ev, type, sec) == ev.type = type /\ ev.key = sec

\* the text inputs of entry i, each assigned to its attribute
RenderEntry(s, sec, entry, i, ev) ==
    LET ws == EntryWidgets[sec]
        attrs == {ws[m][1] : m \in 1..Len(ws)}
        prefix(a) == ws[CHOOSE m \in 1..Len(ws) : ws[m][1] = a][2]
    IN  [a \in DOMAIN entry \cup attrs |->
            IF a \in attrs
            THEN KeyedInput(s, ev, WidgetKey(prefix(a), i),
                            IF a \in DOMAIN entry THEN entry[a] ELSE NoText)
            ELSE entry[a]]

\* the loop over the entries, as far as entry number last
RenderEntries(s, sec, list, last, ev) ==
    [n \in 1..Len(list) |->
        IF n - 1 <= last THEN RenderEntry(s, sec, list[n], n - 1, ev) ELSE list[n]]

\* the loop of a section: every entry's inputs and, past the first entry, its
\* remove button, which pops the entry and reruns
RenderLoop(sec, s, list, ev) ==
    IF Clicked(ev, "remove", sec) /\ ev.index > 0 /\ ev.index < Len(list)
    THEN [ss |-> Put(s, sec, Pop(RenderEntries(s, sec, list, ev.index, ev), ev.index)),
          rerun |-> TRUE]
    ELSE [ss |-> Put(s, sec, RenderEntries(s, sec, list, Len(list) - 1, ev)),
          rerun |-> FALSE]

\* one section of render_builder_page: the add button, then the loop
RenderSection(sec, s, ev) ==
    IF Clicked(ev, "add", sec) /\ AddAvailable(sec, s[sec])
    THEN IF AddReruns(sec)
         THEN [ss |-> Put(s, sec, Append(s[sec], BlankEntry[sec])), rerun |-> TRUE]
         ELSE RenderLoop(sec, s, Append(s[sec], BlankEntry[sec]), ev)
    ELSE RenderLoop(sec, s, s[sec], ev)

\* the sections in page order; st.rerun() leaves the rest of the page out
RECURSIVE RenderSections(_, _, _)
NextSection(r, ev, n) ==
    IF r.rerun THEN r ELSE RenderSections(r.ss, ev, n + 1)
RenderSections(s, ev, n) ==
    IF n > Len(SectionOrder) THEN [ss |-> s, rerun |-> FALSE]
    ELSE NextSection(RenderSection(SectionOrder[n], s, ev), ev, n)

\* ss.skills[c] = st.text_input(label, ss.skills.get(c, ''))
RenderSkills(skills, ev) ==
    [c \in {SkillWidgets[m][1] : m \in 1..Len(SkillWidgets)} |->
        LET label == SkillWidgets[CHOOSE m \in 1..Len(SkillWidgets) :
                                      SkillWidgets[m][1] = c][2]
        IN  TextInput(ev, label, IF c \in DOMAIN skills THEN skills[c] ELSE NoText)]

\* data = {...}: the record collected from the inputs and the session
Collect(s, form) ==
    [k \in {DataOrder[n] : n \in 1..Len(DataOrder)} |->
        IF k = "full_name" THEN standardize_name(form.full_name)
        ELSE IF k = "website" THEN s["personal_website"]
        ELSE IF k \in FormWidgets THEN form[k]
        ELSE s[k]]

\* st.session_state.get('api_key')
StoredKey(s) == IF Has(s, "api_key") THEN Some(s["api_key"]) ELSE None

\* if api_key: ResumeOptimizer(api_key).enhance_resume_content(data_to_text(data))
Enhancement(api_key, data, outcome) ==
    IF ~TruthyOpt(api_key)
    THEN [ran |-> FALSE, ret |-> NoText, raised |-> FALSE, requests |-> 0]
    ELSE IF ResumeOptimizerInit(api_key).raised # ""
    THEN [ran |-> TRUE, ret |-> NoText, raised |-> TRUE, requests |-> 0]
    ELSE [ran |-> TRUE] @@ enhance_resume_content(data_to_text(data), outcome)

\* the toast of the enhancement
Shown(e) ==
    IF e.ran THEN [OutNone EXCEPT !.toast = EnhancementComplete,
                                  !.requests = e.requests]
    ELSE OutNone

\* the validation and the PDF: build_pdf_single_page is taken to return
\* bytes; pdf_data is the record it is called with
Validated(s, form, data, e, missing) ==
    IF missing # <<>>
    THEN [ss |-> s, widgets |-> form, rerun |-> FALSE,
          out |-> [Shown(e) EXCEPT !.error = PleaseFill, !.missing = missing]]
    ELSE [ss |-> s, widgets |-> form, rerun |-> FALSE,
          out |-> [Shown(e) EXCEPT !.pdf = TRUE, !.pdf_data = data,
                                   !.download = Some(FileName(data.full_name))]]

\* a workflow that gives up when the enhancement brought no text
EnhancedBlocking(s, form, data, e) ==
    IF e.raised \/ (e.ran /\ ~Truthy(e.ret))
    THEN [ss |-> s, widgets |-> form, rerun |-> FALSE,
          out |-> [OutNone EXCEPT !.exception = TRUE, !.requests = e.requests]]
    ELSE Validated(IF e.ran THEN Put(s, "enhanced_resume_content", e.ret) ELSE s,
                   form, data, e, MissingOf(Required, data))

\* the try block: the enhancement stored, then the validation; an exception
\* is displayed
Enhanced(s, form, data, e) ==
    IF e.raised
    THEN [ss |-> s, widgets |-> form, rerun |-> FALSE,
          out |-> [OutNone EXCEPT !.exception = TRUE, !.requests = e.requests]]
    ELSE Validated(IF e.ran THEN Put(s, "enhanced_resume_content", e.ret) ELSE s,
                   form, data, e, MissingOf(Required, data))

Collected(s, form, data, outcome) ==
    Enhanced(s, form, data, Enhancement(StoredKey(s), data, outcome))

\* the body of the generate button
GenerateResume(s, form, outcome) ==
    Collected(s, form, Collect(s, form), outcome)

\* the inputs without a key, as the run reads them
BuilderForm(w, ev) == [n \in FormWidgets |-> FormInput(w, ev, n, FormDefaults[n])]

\* st.text_input("Personal Website", key="personal_website")
Website(s, ev) ==
    TextInput(ev, "personal_website",
              IF Has(s, "personal_website") THEN s["personal_website"] ELSE NoText)

\* the page down to the skills
BuilderTop(s, ev) ==
    [Put(s, "personal_website", Website(s, ev))
        EXCEPT !["skills"] = RenderSkills(@, ev)]

\* the page below the sections
BuilderEnd(r, form, ev) ==
    IF r.rerun
    THEN [ss |-> r.ss, widgets |-> form, out |-> OutNone, rerun |-> TRUE]
    ELSE IF ev.type = "generate"
    THEN GenerateResume(r.ss, form, ev.outcome)
    ELSE [ss |-> r.ss, widgets |-> form, out |-> OutNone, rerun |-> FALSE]

BuilderBody(s, w, ev) ==
    BuilderEnd(RenderSections(BuilderTop(s, ev), ev, 1), BuilderForm(w, ev), ev)

\* render_builder_page
render_builder_page(s, w, ev) == BuilderBody(init_state(s), w, ev)

\* a welcome page that takes any credential
render_welcome_page_unchecked(s, w, ev) ==
    IF ev.type = "save"
    THEN [ss |-> Put(Put(s, "api_key", FormInput(w, ev, "api_key", NoText)),
                     "page", "builder"),
          widgets |-> [api_key |-> FormInput(w, ev, "api_key", NoText)],
          out |-> OutNone, rerun |-> TRUE]
    ELSE [ss |-> s, widgets |-> [api_key |-> FormInput(w, ev, "api_key", NoText)],
          out |-> OutNone, rerun |-> FALSE]

\* render_welcome_page
render_welcome_page(s, w, ev) ==
    IF ev.type = "save"
    THEN IF Truthy(FormInput(w, ev, "api_key", NoText))
         THEN [ss |-> Put(Put(s, "api_key", FormInput(w, ev, "api_key", NoText)),
                          "page", "builder"),
               widgets |-> [api_key |-> FormInput(w, ev, "api_key", NoText)],
               out |-> OutNone, rerun |-> TRUE]
         ELSE [ss |-> s, widgets |-> [api_key |-> FormInput(w, ev, "api_key", NoText)],
               out |-> [OutNone EXCEPT !.error = MandatoryKey], rerun |-> FALSE]
    ELSE [ss |-> s, widgets |-> [api_key |-> FormInput(w, ev, "api_key", NoText)],
          out |-> OutNone, rerun |-> FALSE]

\* the page router
Route(s, w, ev) ==
    IF s["page"] = "welcome"
    THEN render_welcome_page(s, w, ev)
    ELSE render_builder_page(s, w, ev)

\* main
main(s, w, ev) == Route(SetDefault(s, "page", "welcome"), w, ev)

\* session_state at the end of a run: the keys the code set and the keyed
\* text inputs that are on the page, each holding its input's value
Rendered(s) ==
    IF s["page"] = "welcome" \/ ~Has(s, "skills")
    THEN [k \in DOMAIN s \cap UserKeys |-> s[k]]
    ELSE [k \in (DOMAIN s \cap (UserKeys \cup {"personal_website"}))
                    \cup KeysOnPage(s) |->
            IF k \in EntryKeys
            THEN s[SlotOf[k].sec][SlotOf[k].index + 1][SlotOf[k].attr]
            ELSE s[k]]

\* the callback of the Refresh Page button runs before the script
BeforeRun(s, ev) == IF ev.type = "clear" THEN clear_form_data(s) ELSE s

\* the run that follows a run ended by st.rerun()
AfterRerun(r) == IF r.rerun THEN main(r.ss, r.widgets, NoEvent) ELSE r

\* what the browser shows when the runs are over
EndRun(r, ev) ==
    [ss |-> Rendered(r.ss), widgets |-> r.widgets,
     out |-> IF ev.type = "clear" THEN [r.out EXCEPT !.toast = FormCleared]
             ELSE r.out]

\* one user event: the callback of the clicked button, the run of main() and,
\* if that run ended in st.rerun(), the run that follows
ScriptRun(s, w, ev) == EndRun(AfterRerun(main(BeforeRun(s, ev), w, ev)), ev)

------------------------------------------------------------------------------
(* The client on its own: construction, then calls                         *)

OptIdle == [phase |-> "none", api_key |-> None, raised |-> "", configured |-> None,
            model |-> "none", calls |-> 0, input |-> <<>>, outcome |-> "",
            ret |-> <<>>, call_raised |-> FALSE, requests |-> 0, sent |-> 0]

AppIdle == /\ ss = <<>>
           /\ widgets = <<>>
           /\ out = <<>>
           /\ identity = "none"
FlowIdle == /\ flow_in = <<>>
            /\ flow_out = <<>>
OptUnused == opt = OptIdle
AuxIdle == /\ layout = <<>>
           /\ util = <<>>

\* ResumeOptimizer(api_key)
Construct(api_key) ==
    /\ opt.phase = "none"
    /\ LET r == ResumeOptimizerInit(api_key)
       IN  opt' = [opt EXCEPT !.phase = IF r.raised = "" THEN "ready" ELSE "failed",
                              !.api_key = api_key, !.raised = r.raised,
                              !.configured = r.configured, !.model = r.model]
    /\ UNCHANGED <<appVars, flowVars, auxVars>>

\* optimizer.enhance_resume_content(raw_resume_data)
Enhance(raw_resume_data, outcome) ==
    /\ opt.phase \in {"ready", "called"}
    /\ opt.calls < MaxCalls
    /\ LET r == enhance_resume_content(raw_resume_data, outcome)
       IN  opt' = [opt EXCEPT !.phase = "called", !.calls = @ + 1,
                              !.input = raw_resume_data, !.outcome = outcome.kind,
                              !.ret = r.ret, !.call_raised = r.raised,
                              !.requests = r.requests, !.sent = @ + r.requests]
    /\ UNCHANGED <<appVars, flowVars, auxVars>>

InitOptimizer == opt = OptIdle /\ AppIdle /\ FlowIdle /\ AuxIdle
NextOptimizer ==
    \/ \E k \in Credentials : Construct(k)
    \/ \E t \in RawTexts, o \in Outcomes : Enhance(t, o)
SpecOptimizer == InitOptimizer /\ [][NextOptimizer]_vars

------------------------------------------------------------------------------
(* The session: one action per user event                                  *)

Page == IF Has(ss, "page") THEN ss["page"] ELSE "none"

\* the credentials typed on the welcome page
KeyTexts == {NoText, <<" ">>, <<"key">>}
\* the inputs of the builder page the user types into, and what is typed
EditedInputs == {"Programming", "exp_company_1"}
EditTexts == {<<"x">>}
\* what the generative model answers to the application
AppOutcomes == {[kind |-> "text", text |-> <<" ", "rewritten", "\n">>],
                [kind |-> "timeout", text |-> NoText]}

SaveEvent == Event("save", "", 0, NoText, NoOutcome)
ClearEvent == Event("clear", "", 0, NoText, NoOutcome)
AddEvent(sec) == Event("add", sec, 0, NoText, NoOutcome)

\* the inputs on the builder page and what they hold
InputsOnPage ==
    FormWidgets \cup {SkillWidgets[m][2] : m \in 1..Len(SkillWidgets)}
                \cup (DOMAIN ss \cap (EntryKeys \cup {"personal_website"}))
ValueOf(k) ==
    IF k \in FormWidgets THEN widgets[k]
    ELSE IF k \in DOMAIN ss THEN ss[k]
    ELSE ss["skills"][SkillWidgets[CHOOSE m \in 1..Len(SkillWidgets) :
                                       SkillWidgets[m][2] = k][1]]

\* the browser after the runs an event started
Shows(r) ==
    /\ ss' = r.ss
    /\ widgets' = r.widgets
    /\ out' = r.out
    /\ UNCHANGED <<identity, optVars, flowVars, auxVars>>

Step(ev) == Shows(ScriptRun(ss, widgets, ev))

\* the page is loaded, or run again with nothing changed
Rerun ==
    /\ TRUE
    /\ Step(NoEvent)

\* the user types a credential into the API Key input
EditApiKey(k) ==
    /\ Page = "welcome"
    /\ widgets["api_key"] # k
    /\ Step(Event("edit", "api_key", 0, k, NoOutcome))

\* the user clicks Save & Continue
SaveAndContinue ==
    /\ Page = "welcome"
    /\ Step(SaveEvent)

\* the user changes the text of an input of the builder page
EditInput(k, t) ==
    /\ Page = "builder"
    /\ k \in InputsOnPage
    /\ ValueOf(k) # t
    /\ Step(Event("edit", k, 0, t, NoOutcome))

\* the user clicks a section's add button
AddEntry(sec) ==
    /\ Page = "builder"
    /\ AddAvailable(sec, ss[sec])
    /\ AddReruns(sec) \/ Len(ss[sec]) < MaxEntries
    /\ Step(AddEvent(sec))

\* the user clicks the remove button of entry i; entry 0 has none
RemoveEntry(sec, i) ==
    /\ Page = "builder"
    /\ i > 0
    /\ i < Len(ss[sec])
    /\ Step(Event("remove", sec, i, NoText, NoOutcome))

\* the user clicks Refresh Page
ClearForm ==
    /\ Page = "builder"
    /\ Step(ClearEvent)

\* the user clicks Generate resume
Generate(outcome) ==
    /\ Page = "builder"
    /\ Step(Event("generate", "", 0, NoText, outcome))

\* a new browser session: session_state is empty and nothing has run
Fresh == [k \in {} |-> NoText]
Init ==
    /\ identity \in WidgetIdentities
    /\ ss = Fresh
    /\ widgets = Fresh
    /\ out = OutNone
    /\ OptUnused
    /\ FlowIdle
    /\ AuxIdle

Next ==
    \/ Rerun
    \/ \E k \in KeyTexts : EditApiKey(k)
    \/ SaveAndContinue
    \/ \E k \in EditedInputs, t \in EditTexts : EditInput(k, t)
    \/ \E sec \in Sections : AddEntry(sec)
    \/ \E sec \in Sections, i \in Positions : RemoveEntry(sec, i)
    \/ ClearForm
    \/ \E o \in AppOutcomes : Generate(o)

Spec == Init /\ [][Next]_vars

------------------------------------------------------------------------------
(* The generate workflow on a filled form                                  *)

\* the builder page as it is after Save & Continue with a credential
BuilderStart ==
    ScriptRun(ScriptRun(Fresh, Fresh, NoEvent).ss, [api_key |-> <<"key">>], SaveEvent)

\* the mandatory inputs, and what the user typed into an input
MandatoryInputs == {Required[n][2] : n \in 1..Len(Required)}
BlankTexts == {NoText, <<" ">>}
TypedText(name) ==
    IF name = "full_name" THEN <<"john", " ", "DOE">> ELSE <<"typed">>
OptionalTexts == {NoText, <<"https://x">>}

\* a builder page whose inputs the user has filled or left blank
InitGenerate ==
    /\ identity \in WidgetIdentities
    /\ \E start \in {BuilderStart.ss}, blank \in SUBSET MandatoryInputs,
          b \in BlankTexts, github \in OptionalTexts, web \in OptionalTexts :
            /\ widgets = [n \in FormWidgets |->
                            IF n \in blank THEN b
                            ELSE IF n = "github_url" THEN github
                            ELSE IF n = "job_description" THEN NoText
                            ELSE TypedText(n)]
            /\ ss = Put(start, "personal_website", web)
    /\ out = OutNone
    /\ OptUnused
    /\ FlowIdle
    /\ AuxIdle

NextGenerate == \E o \in AppOutcomes : Generate(o)

SpecGenerate == InitGenerate /\ [][NextGenerate]_vars

------------------------------------------------------------------------------
(* Flow construction on its own                                            *)

\* how many entries the lists handed to _make_flow have at most
MaxFlowEntries == 2

Lines7 == <<"a1", "\n", "a2", "\n", " ", "a3", " ", "\n", "\n", "a4", "\n",
            "a5", "\n", " ", "\n", "a6", "\n", "a7", "\n">>
Lines2 == <<"c1", "\n", "c2">>

\* the experience entries tried
ExperienceChoices ==
    {[job_title |-> NoText, company |-> <<"Acme">>, start_year |-> <<"2020">>,
      end_year |-> NoText, description |-> Lines2],
     [job_title |-> <<"Dev">>, company |-> <<"Acme">>, start_year |-> <<"2020">>,
      end_year |-> <<"2021">>, description |-> NoText],
     [job_title |-> <<"Dev">>, company |-> <<"Acme">>, start_year |-> <<"2020">>,
      end_year |-> NoText, description |-> Lines7],
     [job_title |-> <<"Lead">>, company |-> <<"Init">>, start_year |-> NoText,
      end_year |-> NoText, description |-> Lines2,
      description_bullets |-> << <<"b1">>, <<"b2">>, <<"b3">>, <<"b4">>, <<"b5">> >>],
     [job_title |-> <<"Lead">>, company |-> <<"Init">>, start_year |-> NoText,
      end_year |-> NoText, description |-> Lines2, description_bullets |-> <<>>]}

\* the project entries tried
ProjectChoices ==
    {[title |-> NoText, link |-> <<"https://p">>, start_year |-> NoText,
      end_year |-> NoText, description |-> Lines2],
     [title |-> <<"Forge">>, link |-> NoText, start_year |-> NoText,
      end_year |-> NoText, description |-> NoText],
     [title |-> <<"Forge">>, link |-> <<"https://p">>, start_year |-> <<"2023">>,
      end_year |-> <<"2024">>, description |-> Lines7],
     [title |-> <<"Tool">>, link |-> NoText, start_year |-> NoText,
      end_year |-> <<"2024">>, description |-> NoText,
      description_bullets |-> << <<"b1">>, <<"b2">>, <<"b3">>, <<"b4">>, <<"b5">>,
                                 <<"b6">> >>]}

\* the rest of the record: the other lists, the summary, the skills, the
\* languages
RestChoices ==
    {[professional_summary |-> NoText,
      skills |-> [programming |-> NoText, frameworks |-> <<" ">>,
                  databases |-> NoText, tools |-> NoText],
      education_entries |-> << [degree |-> <<"BSc">>, institution |-> NoText,
                                start_year |-> <<"2016">>, end_year |-> NoText] >>,
      certificate_entries |-> << [name |-> NoText, organization |-> <<"Org">>,
                                  year |-> NoText, url |-> NoText] >>,
      achievement_entries |-> << [title |-> NoText, year |-> <<"2020">>,
                                  description |-> <<"won">>] >>,
      languages |-> NoText],
     [professional_summary |-> <<"Versatile", " ", "developer.">>,
      skills |-> DefaultSkills,
      education_entries |-> << [degree |-> <<"BSc">>, institution |-> <<"MIT">>,
                                start_year |-> <<"2016">>, end_year |-> <<"2020">>,
                                location |-> <<"Boston">>, gpa |-> <<"3.9">>,
                                courses |-> <<"Algebra">>,
                                description |-> <<"Honours">>] >>,
      certificate_entries |-> << [name |-> <<"AWS">>, organization |-> <<"Amazon">>,
                                  year |-> <<"2022">>, url |-> <<"https://c">>] >>,
      achievement_entries |-> << [title |-> <<"Prize">>, year |-> <<"2020">>,
                                  description |-> <<"won">>] >>,
      languages |-> <<"English">>],
     [professional_summary |-> <<"Versatile", " ", "developer.">>,
      skills |-> [programming |-> NoText, frameworks |-> NoText,
                  databases |-> NoText, tools |-> NoText],
      education_entries |-> << [degree |-> NoText, institution |-> <<"MIT">>,
                                start_year |-> NoText, end_year |-> NoText],
                               [degree |-> <<"BSc">>, institution |-> <<"MIT">>,
                                start_year |-> <<"2016">>, end_year |-> NoText] >>,
      certificate_entries |-> << [name |-> <<"AWS">>, organization |-> NoText,
                                  year |-> NoText, url |-> NoText] >>,
      achievement_entries |-> << [title |-> NoText, year |-> NoText,
                                  description |-> NoText] >>,
      languages |-> NoText],
     [professional_summary |-> NoText,
      skills |-> DefaultSkills,
      education_entries |-> <<>>,
      certificate_entries |-> << [name |-> NoText, organization |-> NoText,
                                  year |-> NoText, url |-> NoText] >>,
      achievement_entries |-> << [title |-> <<"Prize">>, year |-> NoText,
                                  description |-> NoText] >>,
      languages |-> <<"English">>]}

\* the lists of at most n entries drawn from S
ListsOf(S, n) == UNION {[1..m -> S] : m \in 0..n}

\* a record for _make_flow: one of the experience and project lists is long
InitFlow ==
    /\ \E x \in ListsOf(ExperienceChoices, MaxFlowEntries),
          p \in ListsOf(ProjectChoices, MaxFlowEntries),
          rest \in RestChoices :
            /\ Len(x) <= 1 \/ Len(p) <= 1
            /\ flow_in = [k \in DOMAIN rest \cup {"experience_entries",
                                                  "project_entries"} |->
                            IF k = "experience_entries" THEN x
                            ELSE IF k = "project_entries" THEN p
                            ELSE rest[k]]
    /\ flow_out = <<>>
    /\ OptUnused
    /\ AppIdle
    /\ AuxIdle

\* _make_flow(data) with the limits left at their defaults
MakeFlow ==
    /\ flow_out = <<>>
    /\ flow_out' = [called |-> "make_flow", cap_exp |-> max_bullets_per_exp,
                    cap_proj |-> max_bullets_per_proj,
                    flow |-> make_flow(flow_in, max_bullets_per_exp,
                                       max_bullets_per_proj)]
    /\ UNCHANGED <<flow_in, appVars, optVars, auxVars>>

\* build_pdf_single_page(data): _make_flow with the compact limits
BuildPdf ==
    /\ flow_out = <<>>
    /\ flow_out' = [called |-> "build_pdf_single_page", cap_exp |-> limits.exp,
                    cap_proj |-> limits.proj,
                    flow |-> make_flow(flow_in, limits.exp, limits.proj)]
    /\ UNCHANGED <<flow_in, appVars, optVars, auxVars>>

NextFlow ==
    \/ MakeFlow
    \/ BuildPdf

SpecFlow == InitFlow /\ [][NextFlow]_vars

------------------------------------------------------------------------------
(* The drawing loop of build_pdf_single_page on its own                    *)

\* how many flowables the flows handed to the loop have at most
MaxBlocks == 3

\* the heights wrapOn returns: a spacer, a rule, a paragraph of one line, of
\* 40 lines and of 70 lines of body text
BlockHeights == {400, 50, 1100, 44000, 77000}

\* the cursor _draw_header returns on an A4 page: below an empty header, and
\* below a name, a title and a line of contacts
HeaderCursors == {80787, 76147}

InitLayout ==
    /\ \E m \in 0..MaxBlocks :
        \E heights \in [1..m -> BlockHeights], y_pos \in HeaderCursors :
            layout = [heights |-> heights, y_pos |-> y_pos, called |-> FALSE,
                      drawn |-> <<>>, ret |-> "", raised |-> FALSE]
    /\ util = <<>>
    /\ OptUnused
    /\ AppIdle
    /\ FlowIdle

\* build_pdf_single_page from the header on: the loop draws, the canvas is
\* saved and the bytes of the buffer are returned
DrawFlowables ==
    /\ ~layout.called
    /\ layout' = [layout EXCEPT
                    !.called = TRUE,
                    !.drawn = draw_flowables(layout.heights, 1, layout.y_pos),
                    !.ret = "bytes"]
    /\ UNCHANGED <<util, appVars, optVars, flowVars>>

SpecLayout == InitLayout /\ [][DrawFlowables]_vars

------------------------------------------------------------------------------
(* The text utilities on their own                                         *)

\* the texts handed to clean_multiline
CleanTexts ==
    {NoText,
     <<"-", " ", "Did", " ", "X", "\n", "*", " ", "Did", " ", "Y", "\n",
       " ", " ", "(bullet)", " ", "Did", " ", "Z", "\n", "\n">>,
     <<"Did", " ", "X">>,
     <<" ", "\n", " ">>,
     <<"-", "\n", "Did", " ", "X", " ", "\n">>}

\* the records handed to data_to_text: every field empty or filled
UtilRecords ==
    {[full_name |-> <<"John", " ", "Doe">>, job_title |-> NoText,
      address |-> NoText, email |-> email, phone |-> NoText,
      linkedin_url |-> NoText, github_url |-> NoText, website |-> NoText,
      job_description |-> NoText, professional_summary |-> summary,
      languages |-> NoText, education_entries |-> edu,
      experience_entries |-> exp, project_entries |-> proj,
      certificate_entries |-> cert, achievement_entries |-> ach,
      skills |-> skills] :
        email \in {NoText, <<"a@b.c">>},
        summary \in {NoText, <<"Versatile", " ", "developer.">>},
        skills \in {[c \in {} |-> NoText], DefaultSkills},
        edu \in {<<>>, DefaultEntries.education_entries,
                 << [degree |-> <<"BSc">>, institution |-> <<"MIT">>,
                     start_year |-> <<"2016">>, end_year |-> NoText,
                     description |-> NoText, location |-> NoText,
                     gpa |-> <<"3.9">>, courses |-> NoText],
                    BlankEntry.education_entries >>},
        exp \in {<<>>, DefaultEntries.experience_entries,
                 <<BlankEntry.experience_entries>>},
        proj \in {<<>>, DefaultEntries.project_entries},
        cert \in {<<>>, << [name |-> <<"AWS">>, organization |-> NoText,
                            year |-> <<"2022">>, url |-> NoText] >>},
        ach \in {<<>>, DefaultEntries.achievement_entries}}

InitUtil ==
    /\ util = [fn |-> "none", arg |-> <<>>, raised |-> "", ret |-> NoText]
    /\ layout = <<>>
    /\ OptUnused
    /\ AppIdle
    /\ FlowIdle

\* clean_multiline(text)
CleanMultiline(text) ==
    /\ util.fn = "none"
    /\ util' = [fn |-> "clean_multiline", arg |-> text,
                raised |-> clean_multiline(text).raised,
                ret |-> clean_multiline(text).ret]
    /\ UNCHANGED <<layout, appVars, optVars, flowVars>>

\* data_to_text(data)
DataToText(data) ==
    /\ util.fn = "none"
    /\ util' = [fn |-> "data_to_text", arg |-> data, raised |-> "",
                ret |-> data_to_text(data)]
    /\ UNCHANGED <<layout, appVars, optVars, flowVars>>

NextUtil ==
    \/ \E text \in CleanTexts : CleanMultiline(text)
    \/ \E data \in UtilRecords : DataToText(data)

SpecUtil == InitUtil /\ [][NextUtil]_vars

------------------------------------------------------------------------------
(* Properties of the client                                                *)

\* whether a credential is absent, empty or made of whitespace only
BlankCredential(k) == k = None \/ ~Truthy(Strip(k[1]))

\* a step in which enhance_resume_content was called and returned
EnhanceStep == opt'.calls = opt.calls + 1

\* C4: a call of enhance_resume_content on a non-blank input issues exactly one
\* generation request, does not raise to its caller, and returns the empty
\* string whenever that request failed (timeout, authentication, quota, a
\* response whose text cannot be read); there is no second request.
C4_FailOpen ==
    [][(EnhanceStep /\ Truthy(Strip(opt'.input)))
        => /\ opt'.sent = opt.sent + 1
           /\ opt'.requests = 1
           /\ ~opt'.call_raised
           /\ (opt'.outcome \in Failures => opt'.ret = <<>>)]_vars

\* a failed request on a non-blank input came back as the empty string
C4_Witness ==
    /\ opt.phase = "called"
    /\ opt.input = <<" ", "resume", "\n">>
    /\ opt.outcome = "malformed"
    /\ opt.sent = 1
    /\ opt.ret = <<>>
    /\ ~opt.call_raised

\* C5: for an input that is empty or whitespace only, enhance_resume_content
\* returns the empty string and the count of requests sent to the generative
\* model is unchanged.
C5_BlankInputNoCall ==
    [][(EnhanceStep /\ ~Truthy(Strip(opt'.input)))
        => /\ opt'.ret = <<>>
           /\ opt'.sent = opt.sent
           /\ ~opt'.call_raised]_vars

\* a whitespace-only input was passed while the service would have answered
C5_Witness ==
    /\ opt.phase = "called"
    /\ opt.input = <<" ", "\n", " ">>
    /\ opt.outcome = "text"
    /\ opt.sent = 0
    /\ opt.ret = <<>>

\* C6: constructing the client fails for every credential that is absent,
\* empty or whitespace only, and then no model client is configured; it
\* succeeds only for a credential with a non-whitespace character.
C6_BlankCredentialRejected ==
    opt.phase # "none"
        => /\ BlankCredential(opt.api_key)
                => (opt.phase = "failed" /\ opt.raised = "ValueError"
                    /\ opt.model = "none" /\ opt.configured = None)
           /\ opt.phase = "ready" => ~BlankCredential(opt.api_key)

------------------------------------------------------------------------------
(* Properties of the session                                               *)

\* the first run of a session: the welcome page and no credential
FirstRunShown(r) ==
    /\ r.ss["page"] = "welcome"
    /\ ~Has(r.ss, "api_key")

\* what Save & Continue does with the credential typed
SaveShown(typed, r) ==
    IF Truthy(typed)
    THEN /\ r.ss["page"] = "builder"
         /\ Has(r.ss, "api_key")
         /\ r.ss["api_key"] = typed
    ELSE /\ r.ss["page"] = "welcome"
         /\ ~Has(r.ss, "api_key")
         /\ r.out.error = MandatoryKey

\* C1: a fresh session is on page 'welcome' with no stored credential; from
\* the welcome page a Save & Continue with a non-empty credential moves the
\* page to 'builder' and stores exactly that credential, and one with an empty
\* credential leaves the page at 'welcome', stores no credential and shows the
\* blocking error message.
C1_Router ==
    /\ Page = "none" => FirstRunShown(ScriptRun(ss, widgets, NoEvent))
    /\ Page = "welcome"
        => /\ ~Has(ss, "api_key")
           /\ SaveShown(widgets["api_key"], ScriptRun(ss, widgets, SaveEvent))

\* the empty credential was submitted and refused
C1_Witness ==
    /\ Page = "welcome"
    /\ widgets["api_key"] = NoText
    /\ out.error = MandatoryKey
    /\ ~Has(ss, "api_key")

\* C2: once the page is 'builder' it stays 'builder' and the stored credential
\* keeps its value through every user action, and in every reachable state
\* page = 'builder' implies a non-empty stored credential.
C2_OneDirectional ==
    /\ [](Page = "builder" => (Has(ss, "api_key") /\ Truthy(ss["api_key"])))
    /\ [][Page = "builder"
            => /\ Page' = "builder"
               /\ Has(ss', "api_key")
               /\ ss'["api_key"] = ss["api_key"]]_vars

\* the builder page after entries were added and the form was generated
C2_Witness ==
    /\ Page = "builder"
    /\ ss["api_key"] = <<"key">>
    /\ Len(ss["education_entries"]) = 2
    /\ out.error = PleaseFill

\* the session fields the clear-form control keeps
ClearKeeps == {"api_key", "page", "theme"}

C8_ListSizes ==
    Page = "builder"
        => /\ \A sec \in Sections : Has(ss, sec) /\ Len(ss[sec]) >= 1
           /\ \A sec \in {"experience_entries", "project_entries"} :
                    /\ Len(ss[sec]) <= 3
                    /\ Len(ss[sec]) = 3 => ~AddAvailable(sec, ss[sec])

\* both capped lists are full and an uncapped list has grown
C8_Witness ==
    /\ Page = "builder"
    /\ Len(ss["experience_entries"]) = 3
    /\ Len(ss["project_entries"]) = 3
    /\ Len(ss["certificate_entries"]) = 2

------------------------------------------------------------------------------
(* Properties of the generate workflow                                     *)

\* the mandatory fields by label
MandatoryByLabel ==
    << <<"Full Name", "full_name">>, <<"Job Title", "job_title">>,
       <<"Address", "address">>, <<"Email", "email">>, <<"Phone", "phone">>,
       <<"LinkedIn URL", "linkedin_url">>,
       <<"Professional Summary", "professional_summary">>,
       <<"Languages", "languages">> >>

BlankAfterTrim(t) == ~Truthy(Strip(t))

AllFilled(w) ==
    \A n \in 1..Len(MandatoryByLabel) : ~BlankAfterTrim(w[MandatoryByLabel[n][2]])

MissingLabels(w) ==
    LET IsBlank(pair) == BlankAfterTrim(w[pair[2]])
        blank == SelectSeq(MandatoryByLabel, IsBlank)
    IN  [n \in 1..Len(blank) |-> blank[n][1]]

\* the session fields that hold what the user entered
EnteredKeys == Sections \cup {"skills", "personal_website"}

\* C3: the generate workflow builds the PDF and offers the download if and
\* only if the eight mandatory fields are non-empty after trimming; otherwise
\* it reports exactly the labels of the blank mandatory fields, builds no PDF
\* and leaves the entered form data unchanged.  The GitHub URL and the website
\* are not among the mandatory fields.
C3_GenerateValidation ==
    [][out'.toast = EnhancementComplete
        => /\ out'.pdf <=> AllFilled(widgets)
           /\ out'.download # None <=> AllFilled(widgets)
           /\ AllFilled(widgets) => (out'.error = "" /\ out'.missing = <<>>)
           /\ ~AllFilled(widgets)
                => /\ out'.error = PleaseFill
                   /\ out'.missing = MissingLabels(widgets)
                   /\ widgets' = widgets
                   /\ \A k \in EnteredKeys : ss'[k] = ss[k]]_vars

\* only the email and the languages were blank
C3_Witness ==
    /\ out.error = PleaseFill
    /\ out.missing = <<"Email", "Languages">>
    /\ ~out.pdf
    /\ out.download = None
    /\ widgets["github_url"] = NoText

------------------------------------------------------------------------------
(* Properties of the flow                                                  *)

\* the qualifying predicate of each list
Qualifying(sec, e) ==
    CASE sec = "education_entries" ->
            Truthy(Get(e, "degree")) /\ Truthy(Get(e, "institution"))
      [] sec = "experience_entries" ->
            Truthy(Get(e, "job_title")) /\ Truthy(Get(e, "company"))
      [] sec = "project_entries" -> Truthy(Get(e, "title"))
      [] sec = "certificate_entries" -> Truthy(Get(e, "name"))
      [] sec = "achievement_entries" -> Truthy(Get(e, "title"))

IsTitle(b) == b.kind = "Paragraph" /\ b.style = "Section"
IsRule(b) == b.kind = "HRLine"

\* the positions of the title of a section in a flow
TitlePos(f, title) == {p \in 1..Len(f) : IsTitle(f[p]) /\ f[p].text = <<title>>}

\* C9: for each of the five lists, a flow built from a list without a
\* qualifying entry has no title block of that section; every rule block
\* follows a title block, and every title block is followed by one full-width
\* rule and then by a content block.
C9_EmptySectionsOmitted ==
    flow_out # <<>>
        => /\ \A sec \in Sections :
                (\A n \in 1..Len(flow_in[sec]) : ~Qualifying(sec, flow_in[sec][n]))
                    => TitlePos(flow_out.flow, SectionTitle[sec]) = {}
           /\ \A p \in 1..Len(flow_out.flow) :
                /\ IsRule(flow_out.flow[p])
                    => (p > 1 /\ IsTitle(flow_out.flow[p - 1]))
                /\ IsTitle(flow_out.flow[p])
                    => /\ p + 2 <= Len(flow_out.flow)
                       /\ IsRule(flow_out.flow[p + 1])
                       /\ flow_out.flow[p + 1].width = "100%"
                       /\ ~IsRule(flow_out.flow[p + 2])
                       /\ ~IsTitle(flow_out.flow[p + 2])

\* no education entry qualifies, an experience entry does
C9_Witness ==
    /\ flow_out # <<>>
    /\ Len(flow_in["education_entries"]) = 1
    /\ ~Qualifying("education_entries", flow_in["education_entries"][1])
    /\ TitlePos(flow_out.flow, "Education") = {}
    /\ TitlePos(flow_out.flow, "EXPERIENCE") # {}

\* the bullet candidates of an entry
Candidates(x) ==
    IF "description_bullets" \in DOMAIN x /\ x["description_bullets"] # <<>>
    THEN x["description_bullets"]
    ELSE StrippedLines(Get(x, "description"))

\* the texts of the first min(n, cap) candidates as bullets
CappedBullets(x, cap) ==
    [n \in 1..(IF Len(Candidates(x)) < cap THEN Len(Candidates(x)) ELSE cap) |->
        BulletPrefix \o Candidates(x)[n]]

\* the positions of a section's blocks and of the headings of its entries
SectionRange(f, title) ==
    IF TitlePos(f, title) = {} THEN {}
    ELSE {q \in (Min(TitlePos(f, title)) + 1)..Len(f) :
            \A r \in (Min(TitlePos(f, title)) + 1)..q : ~IsTitle(f[r])}
HeadingPos(f, title) == {q \in SectionRange(f, title) : f[q].style = "Body"}
Nth(S, j) == CHOOSE x \in S : Cardinality({y \in S : y < x}) = j - 1

\* the texts of the bullet blocks that follow position q
BulletRun(f, q) ==
    [n \in 1..Cardinality({r \in (q + 1)..Len(f) :
                                \A u \in (q + 1)..r : f[u].style = "Bullet"}) |->
        f[q + n].text]

QualifyingOf(sec, list) ==
    LET Q(e) == Qualifying(sec, e)
    IN  SelectSeq(list, Q)

\* every qualifying entry of the list has its heading and its capped bullets
Capped(f, sec, cap) ==
    /\ Cardinality(HeadingPos(f, SectionTitle[sec]))
            = Len(QualifyingOf(sec, flow_in[sec]))
    /\ \A j \in 1..Len(QualifyingOf(sec, flow_in[sec])) :
            BulletRun(f, Nth(HeadingPos(f, SectionTitle[sec]), j))
                = CappedBullets(QualifyingOf(sec, flow_in[sec])[j], cap)

\* C10: for every qualifying experience or project entry with n bullet
\* candidates the flow holds exactly min(n, cap) bullet blocks for the entry,
\* the first min(n, cap) candidates in their order; build_pdf_single_page
\* uses cap = 4.  The candidates are description_bullets when present and
\* non-empty, otherwise the non-blank lines of the description.
C10_BulletCap ==
    flow_out # <<>>
        => /\ flow_out.called = "build_pdf_single_page"
                => (flow_out.cap_exp = 4 /\ flow_out.cap_proj = 4)
           /\ Capped(flow_out.flow, "experience_entries", flow_out.cap_exp)
           /\ Capped(flow_out.flow, "project_entries", flow_out.cap_proj)

\* an experience entry with 7 description lines gave 4 bullets
C10_Witness ==
    /\ flow_out # <<>>
    /\ flow_out.called = "build_pdf_single_page"
    /\ Len(flow_in["experience_entries"]) = 1
    /\ Len(StrippedLines(flow_in["experience_entries"][1].description)) = 7
    /\ ~("description_bullets" \in DOMAIN flow_in["experience_entries"][1])
    /\ Qualifying("experience_entries", flow_in["experience_entries"][1])
    /\ Cardinality({p \in SectionRange(flow_out.flow, "EXPERIENCE") :
                        flow_out.flow[p].style = "Bullet"}) = 4

------------------------------------------------------------------------------
(* Properties of the drawing loop                                          *)

\* the sum of the first n heights
RECURSIVE HeightSum(_, _)
HeightSum(heights, n) ==
    IF n = 0 THEN 0 ELSE heights[n] + HeightSum(heights, n - 1)

\* where the cursor is after the first n flowables were drawn
CursorAfter(n) == layout.y_pos - HeightSum(layout.heights, n)

\* C11: the drawn blocks are a prefix of the flow, each drawn at the cursor
\* moved down by its height; no drawn block reaches below the bottom margin;
\* the first block that does not fit and every later block are dropped, even
\* a later block that would fit; the routine returns bytes and does not raise.
C11_Truncation ==
    layout # <<>> /\ layout.called
        => /\ Len(layout.drawn) <= Len(layout.heights)
           /\ \A j \in 1..Len(layout.drawn) :
                /\ layout.drawn[j].block = j
                /\ layout.drawn[j].y = CursorAfter(j)
                /\ layout.drawn[j].y >= bottom_margin
           /\ Len(layout.drawn) < Len(layout.heights)
                => CursorAfter(Len(layout.drawn) + 1) < bottom_margin
           /\ layout.ret = "bytes"
           /\ ~layout.raised

\* a block was drawn, the next did not fit, and the one after it, which would
\* have fitted, was dropped with it
C11_Witness ==
    /\ layout # <<>>
    /\ layout.called
    /\ Len(layout.heights) = 3
    /\ Len(layout.drawn) = 1
    /\ CursorAfter(1) - layout.heights[3] >= bottom_margin

------------------------------------------------------------------------------
(* Properties of the text utilities                                        *)

\* a line without a leading bullet marker and the whitespace around it
Unmarked(line) ==
    IF Strip(line) # <<>> /\ Head(Strip(line)) \in {"-", "*", "(bullet)"}
    THEN Strip(Tail(Strip(line)))
    ELSE Strip(line)

\* str.splitlines(): the lines of a text; no empty line after a final "\n"
TextLines(t) ==
    IF t # <<>> /\ t[Len(t)] = "\n" THEN SplitLines(SubSeq(t, 1, Len(t) - 1))
    ELSE IF t = <<>> THEN <<>> ELSE SplitLines(t)

\* the cleaned lines of a text: unmarked, the empty ones dropped
CleanedLines(t) ==
    LET unmarked == [n \in 1..Len(TextLines(t)) |-> Unmarked(TextLines(t)[n])]
    IN  SelectSeq(unmarked, Truthy)

\* C12: for any text clean_multiline completes without error and returns the
\* lines of the text in their order, each without its leading bullet marker
\* and the whitespace around it, the lines that become empty dropped; for
\* "- Did X\n* Did Y\n  (bullet) Did Z\n\n" that is Did X, Did Y, Did Z.
C12_CleanMultiline ==
    util # <<>> /\ util.fn = "clean_multiline"
        => /\ util.raised = ""
           /\ util.ret = CleanedLines(util.arg)

\* the substring test: sub occurs in seq
Contains(seq, sub) ==
    \E p \in 0..(Len(seq) - Len(sub)) : SubSeq(seq, p + 1, p + Len(sub)) = sub

\* how often an atom occurs in a text
Occurrences(seq, atom) == Cardinality({p \in 1..Len(seq) : seq[p] = atom})

\* the non-empty attributes of the entries of the lists of a record
FilledAttributes(data) ==
    {x \in [sec : Sections, n : 1..MaxLen, attr : DOMAIN LabelOf] :
        /\ x.n <= Len(data[x.sec])
        /\ x.attr \in DOMAIN data[x.sec][x.n]
        /\ Truthy(data[x.sec][x.n][x.attr])}

\* C13: data_to_text has a heading for a field exactly when the field is a
\* non-empty list of sub-records or a non-empty string; a non-empty string
\* follows its heading; under the list headings every non-empty attribute
\* has its 'Label: value' line and the empty attributes have none; the skills
\* mapping has no heading.
C13_DataToText ==
    util # <<>> /\ util.fn = "data_to_text"
        => /\ util.raised = ""
           /\ \A n \in 1..Len(DataOrder) :
                LET key == DataOrder[n]
                    value == util.arg[key]
                IN  /\ Occurrences(util.ret, HeadingOf[key]) > 0
                        <=> IF key \in Sections THEN value # <<>>
                            ELSE key # "skills" /\ Truthy(value)
                    /\ (key \notin Sections /\ key # "skills" /\ Truthy(value))
                        => Contains(util.ret,
                                    <<HeadingOf[key], "\n">> \o value \o <<"\n">>)
           /\ \A x \in FilledAttributes(util.arg) :
                Contains(util.ret,
                         <<"\n", LabelOf[x.attr] \o ":", " ">>
                            \o util.arg[x.sec][x.n][x.attr] \o <<"\n">>)
           /\ \A a \in DOMAIN LabelOf :
                Occurrences(util.ret, LabelOf[a] \o ":")
                    = Cardinality({x \in FilledAttributes(util.arg) :
                                        LabelOf[x.attr] = LabelOf[a]})

\* a summary and an empty skills mapping: the summary's heading and text, no
\* heading of the skills, and an education entry with some attributes empty
C13_Witness ==
    /\ util # <<>>
    /\ util.fn = "data_to_text"
    /\ util.arg.skills = [c \in {} |-> NoText]
    /\ Truthy(util.arg.professional_summary)
    /\ Len(util.arg.education_entries) = 2
    /\ Contains(util.ret, <<"# Professional Summary", "\n", "Versatile">>)
    /\ Occurrences(util.ret, "# Skills") = 0
    /\ Occurrences(util.ret, "Gpa:") = 1
    /\ Occurrences(util.ret, "Courses:") = 0

------------------------------------------------------------------------------
(* Properties of the builder page                                          *)

\* the session fields init_state seeds
SeededKeys == Sections \cup {"skills"}

\* C14: init_state seeds the five lists and the skills mapping only when they
\* are absent: on a session without them it stores the defaults, on a session
\* of the builder page it changes nothing, applied twice it does what it does
\* applied once, and a render of the page on no event leaves the lists and
\* the skills as the user's additions, removals and edits made them.
C14_InitIdempotent ==
    Page = "builder"
        => /\ init_state(ss) = ss
           /\ \A k \in SeededKeys :
                ScriptRun(ss, widgets, NoEvent).ss[k] = ss[k]
           /\ init_state(init_state(clear_form_data(ss)))
                = init_state(clear_form_data(ss))
           /\ \A sec \in Sections :
                init_state(clear_form_data(ss))[sec] = DefaultEntries[sec]
           /\ init_state(clear_form_data(ss))["skills"] = DefaultSkills

\* the user has added entries and typed into the inputs
C14_Witness ==
    /\ Page = "builder"
    /\ Len(ss["education_entries"]) = 2
    /\ Len(ss["experience_entries"]) = 2
    /\ ss["experience_entries"][2]["company"] = <<"x">>
    /\ ss["skills"]["programming"] = <<"x">>
    /\ init_state(ss) = ss

------------------------------------------------------------------------------
(* The generate workflow and the enhancement                                *)

\* the click on Generate resume when the generative model does as o says
GenerateEvent(o) == Event("generate", "", 0, NoText, o)

\* two runs of the workflow differ in nothing but the enhanced text stored
SameButEnhanced(r1, r2) ==
    /\ r1.out.error = r2.out.error
    /\ r1.out.missing = r2.out.missing
    /\ r1.out.pdf = r2.out.pdf
    /\ r1.out.pdf_data = r2.out.pdf_data
    /\ r1.out.download = r2.out.download
    /\ r1.out.exception = r2.out.exception
    /\ r1.widgets = r2.widgets
    /\ DOMAIN r1.ss = DOMAIN r2.ss
    /\ \A k \in DOMAIN r1.ss \ {"enhanced_resume_content"} : r1.ss[k] = r2.ss[k]

\* a run of the workflow builds the PDF from the record collected from the
\* form when the mandatory fields are filled, and leaves the lists alone
BuiltFromForm(r) ==
    /\ ~r.out.exception
    /\ AllFilled(widgets) => (r.out.pdf /\ r.out.pdf_data = Collect(ss, widgets))
    /\ ~AllFilled(widgets) => ~r.out.pdf
    /\ \A k \in EnteredKeys : r.ss[k] = ss[k]

\* the outcomes compared with a run that returns text: the empty text and
\* two failures
ComparedOutcomes ==
    {o \in Outcomes : o.kind \in {"timeout", "malformed"}
                        \/ (o.kind = "text" /\ o.text = <<>>)}
TextOutcome == [kind |-> "text", text |-> <<"rewritten">>]

IndependentOf(r, ref) == SameButEnhanced(r, ref) /\ BuiltFromForm(r)

------------------------------------------------------------------------------
(* The spacers of the flow                                                 *)

IsSpacer(b) == b.kind = "Spacer"
IsEntryHeading(b) == b.kind = "Paragraph" /\ b.style = "Body"
IsEntryBlock(b) == b.kind = "Paragraph" /\ b.style \in {"Body", "Bullet"}

\* C16: in the Experience and Projects content of the flow a spacer stands
\* only between two rendered entries, after a block of one and before the
\* heading of the next, and never after the last rendered entry, also for
\* lists whose last entry fails the qualifying predicate and is skipped.
C16_SpacerBetweenEntries ==
    flow_out # <<>>
        => \A p \in 1..Len(flow_out.flow) :
                IsSpacer(flow_out.flow[p])
                    => /\ p \in SectionRange(flow_out.flow, "EXPERIENCE")
                                \cup SectionRange(flow_out.flow, "PROJECTS")
                       /\ IsEntryBlock(flow_out.flow[p - 1])
                       /\ p < Len(flow_out.flow)
                       /\ IsEntryHeading(flow_out.flow[p + 1])

------------------------------------------------------------------------------
(* The add and remove buttons                                              *)

\* the last entry of a list
LastOf(list) == list[Len(list)]

\* C17: an add appends exactly one record at the end of its section's list
\* and leaves the entries before it and the other lists unchanged; the new
\* record has every attribute empty and the attributes of the entry seeded
\* for the section at initialization.
C17_AddAppendsBlank ==
    [][\A sec \in Sections :
        (Page = "builder" /\ Page' = "builder"
            /\ Len(ss'[sec]) = Len(ss[sec]) + 1)
            => /\ SubSeq(ss'[sec], 1, Len(ss[sec])) = ss[sec]
               /\ \A other \in Sections \ {sec} : ss'[other] = ss[other]
               /\ \A a \in DOMAIN LastOf(ss'[sec]) : LastOf(ss'[sec])[a] = NoText
               /\ DOMAIN LastOf(ss'[sec]) = DOMAIN DefaultEntries[sec][1]]_vars

\* the click on the remove button of position i of a section
RemoveEvent(sec, i) == Event("remove", sec, i, NoText, NoOutcome)

\* what the click on a remove button leaves: the list without the entry at
\* the position, the other entries as they were, the other lists unchanged
RemovedAt(r, sec, i) ==
    /\ r.ss[sec] = Pop(ss[sec], i)
    /\ r.ss[sec][1] = ss[sec][1]
    /\ \A other \in Sections \ {sec} : r.ss[other] = ss[other]

\* C18: only the positions i > 0 have a remove button; removing position i
\* deletes exactly that entry, and after the render that follows, in which
\* the entries are read again from the inputs keyed by position, the entries
\* left hold the values they held, in their order, and no other list has
\* changed.
C18_RemoveKeepsOthers ==
    Page = "builder"
        => \A sec \in Sections :
            /\ ScriptRun(ss, widgets, RemoveEvent(sec, 0)).ss[sec] = ss[sec]
            /\ \A i \in 1..(Len(ss[sec]) - 1) :
                    RemovedAt(ScriptRun(ss, widgets, RemoveEvent(sec, i)), sec, i)

====
